---- MODULE Spec2Model ----
(***************************************************************************)
(* Model of scrython/cards/cards_object.py: class CardsObject.             *)
(*                                                                         *)
(* Text (URLs, option values) is a sequence of tokens.  A token is either  *)
(* a run of unreserved characters ("json", "cards/random") or one reserved *)
(* character (" ", "&", "=", "+", "%", "?") or, after quoting, one escape  *)
(* ("%26").  JSON values are tagged records.                               *)
(***************************************************************************)
EXTENDS Integers, Sequences, FiniteSets, TLC

VARIABLES
    pc,            \* position of the constructing caller / instance life cycle
    path,          \* the _url argument of __init__
    kwargs,        \* the **kwargs argument of __init__
    params,        \* self.params
    encodedParams, \* self.encodedParams
    url,           \* self._url
    loopPc,        \* position of do_everything / main / getRequest
    wire,          \* what the transport holds for the request in flight
    requests,      \* number of HTTP GETs issued
    scryfallJson,  \* self.scryfallJson
    raised,        \* exception that left __init__
    prev,          \* getter call before the last one, with its outcome
    last           \* last getter call, with its outcome

vars == <<pc, path, kwargs, params, encodedParams, url, loopPc, wire,
          requests, scryfallJson, raised, prev, last>>

(***************************************************************************)
(* Bounds and input sets                                                   *)
(***************************************************************************)
MaxFaces == 2

OptionNames == <<"format", "face", "version", "pretty">>

Unrecognized == "lang"

OptionValues ==
    { <<>>, <<"json">>, <<"a", " ", "b">>, <<"&", "face", "=", "x">>, <<"+", "%">> }

Paths == { <<"cards/random">>, <<"cards/random", "?">>,
           <<"cards/named", "?", "fuzzy", "=", "opt">> }

Range(s) == { s[i] : i \in 1..Len(s) }

KwargsOver(keys) == UNION { [ks -> OptionValues] : ks \in SUBSET keys }

AllKwargs == KwargsOver(Range(OptionNames) \cup {Unrecognized})

FewKwargs == { <<>>, [k \in {"face", Unrecognized} |-> <<"a", " ", "b">>] }

(***************************************************************************)
(* urllib.parse: quoting and query strings                                 *)
(***************************************************************************)
Reserved == {" ", "&", "=", "+", "%", "?"}

Escape(c) ==
    CASE c = "&" -> "%26"
      [] c = "=" -> "%3D"
      [] c = "+" -> "%2B"
      [] c = "%" -> "%25"
      [] c = "?" -> "%3F"
      [] OTHER -> c

\* quote_plus without the escaping step
quote_plus_raw(text) == text

\* urllib.parse.quote_plus: space becomes "+", other reserved characters
\* become percent escapes, unreserved runs are kept
quote_plus(text) ==
    [i \in 1..Len(text) |-> IF text[i] = " " THEN "+" ELSE Escape(text[i])]

\* urllib.parse.unquote_plus, the inverse reading used by a server
unquote_plus(text) ==
    [i \in 1..Len(text) |->
        IF text[i] = "+" THEN " "
        ELSE IF \E c \in Reserved : c # text[i] /\ Escape(c) = text[i]
             THEN CHOOSE c \in Reserved : c # text[i] /\ Escape(c) = text[i]
             ELSE text[i]]

RECURSIVE urlencodeFrom(_, _)
urlencodeFrom(ps, i) ==
    IF i > Len(ps) THEN <<>>
    ELSE (IF i > 1 THEN <<"&">> ELSE <<>>)
         \o quote_plus(<<ps[i].k>>) \o <<"=">> \o quote_plus(ps[i].v)
         \o urlencodeFrom(ps, i + 1)

\* urllib.parse.urlencode over a dict, in insertion order
urlencode(ps) == urlencodeFrom(ps, 1)

\* index of the first occurrence of token c in text at or after i, else 0
RECURSIVE Find(_, _, _)
Find(text, c, i) ==
    IF i > Len(text) THEN 0
    ELSE IF text[i] = c THEN i ELSE Find(text, c, i + 1)

\* one "key=value" field of a query string
ParseField(f) ==
    LET e == Find(f, "=", 1) IN
    IF e = 0 THEN [k |-> unquote_plus(f), v |-> <<>>]
    ELSE [k |-> unquote_plus(SubSeq(f, 1, e - 1)),
          v |-> unquote_plus(SubSeq(f, e + 1, Len(f)))]

\* urllib.parse.parse_qsl(keep_blank_values=True): how the receiver reads
\* a query string back into its ordered list of parameters
RECURSIVE parse_qsl(_)
parse_qsl(q) ==
    IF q = <<>> THEN <<>>
    ELSE LET a == Find(q, "&", 1) IN
         IF a = 0 THEN <<ParseField(q)>>
         ELSE <<ParseField(SubSeq(q, 1, a - 1))>>
              \o parse_qsl(SubSeq(q, a + 1, Len(q)))

(***************************************************************************)
(* __init__, lines 31-37: request parameters and URL                       *)
(***************************************************************************)
Origin == <<"https://api.scryfall.com/">>

\* kwargs.get(key, default)
KwGet(kw, key, default) == IF key \in DOMAIN kw THEN kw[key] ELSE default

\* self.params: a dict, kept as its insertion-ordered list of items
MakeParams(kw) ==
    [i \in 1..Len(OptionNames) |->
        [k |-> OptionNames[i],
         v |-> KwGet(kw, OptionNames[i],
                     IF OptionNames[i] = "format" THEN <<"json">> ELSE <<>>)]]

\* 'https://api.scryfall.com/{0}&{1}'.format(_url, self.encodedParams)
MakeUrl(p, enc) == Origin \o p \o <<"&">> \o enc

(***************************************************************************)
(* JSON values and response documents                                      *)
(***************************************************************************)
Absent == [t |-> "absent"]
JNull == [t |-> "null"]
JFalse == [t |-> "bool", b |-> FALSE]
JZero == [t |-> "num", n |-> 0]
JStr(s) == [t |-> "str", s |-> s]
JList(l) == [t |-> "list", l |-> l]
JObj(m) == [t |-> "object", m |-> m]

\* Python's str() of a JSON-derived value, as text
str(v) ==
    CASE v.t = "str" -> IF v.s = "" THEN <<>> ELSE <<v.s>>
      [] v.t = "null" -> <<"None">>
      [] v.t = "bool" -> IF v.b THEN <<"True">> ELSE <<"False">>
      [] v.t = "num" -> <<"0">>
      [] OTHER -> <<"<", v.t, ">">>

TupleOf(S, n) == [1..n -> S]

SeqUpTo(S, n) == UNION { TupleOf(S, k) : k \in 0..n }

FaceChoices ==
    { JObj(<<>>),
      JObj([k \in {"color_indicator"} |-> JList(<<JStr("U"), JStr("B")>>)]) }

FieldChoices ==
    [ object     : {Absent, JStr("card"), JStr("error")},
      details    : {Absent, JStr("X")},
      name       : {Absent, JStr("Opt")},
      power      : {Absent, JNull, JFalse, JZero, JStr("")},
      usd        : {Absent, JStr("1.23")},
      btc        : {Absent, JStr("9")},
      card_faces : {Absent} \cup { JList(fs) : fs \in SeqUpTo(FaceChoices, MaxFaces) } ]

\* a JSON object holds exactly the keys the body carries
Strip(r) == [k \in { x \in DOMAIN r : r[x] # Absent } |-> r[k]]

Documents == { Strip(r) : r \in FieldChoices }

NetworkFailures == {"ClientConnectorError", "ServerTimeoutError"}

Unset == [t |-> "unset"]

NoExc == [kind |-> "none", msg |-> <<>>]

Exc(kind, msg) == [kind |-> kind, msg |-> msg]

NoWire == [status |-> "none", body |-> Unset, error |-> "none"]

(***************************************************************************)
(* __init__, lines 39-53: the request run through Thread.run               *)
(***************************************************************************)
\* Thread.start() in place of Thread.run(): returns at once, whatever the
\* target does
ThreadRunResult_start(lp, w) == {NoExc}

\* do_everything catching what the event loop raises
ThreadRunResult_swallow(lp, w) ==
    IF lp \in {"done", "error"} THEN {NoExc} ELSE {}

\* t.run(): Thread.run calls the target in the calling thread, so it gives
\* control back only when do_everything has finished, and what the target
\* raises is raised in the caller
ThreadRunResult(lp, w) ==
    IF lp = "done" THEN {NoExc}
    ELSE IF lp = "error" THEN {Exc(w.error, <<"cannot connect">>)}
    ELSE {}

(***************************************************************************)
(* __init__, lines 55-56: the check for an error document                  *)
(***************************************************************************)
\* the check reading the field with dict.get
Validate_get(json) ==
    IF json = Unset
    THEN Exc("AttributeError", <<"scryfallJson">>)
    ELSE IF "object" \in DOMAIN json /\ json["object"] = JStr("error")
    THEN IF "details" \notin DOMAIN json
         THEN Exc("KeyError", <<"details">>)
         ELSE Exc("Exception", str(json["details"]))
    ELSE NoExc

\* the check left out
Validate_skip(json) ==
    IF json = Unset THEN Exc("AttributeError", <<"scryfallJson">>) ELSE NoExc

\* if self.scryfallJson['object'] == 'error': raise Exception(...['details'])
Validate(json) ==
    IF json = Unset
    THEN Exc("AttributeError", <<"scryfallJson">>)
    ELSE IF "object" \notin DOMAIN json
    THEN Exc("KeyError", <<"object">>)
    ELSE IF json["object"] = JStr("error")
    THEN IF "details" \notin DOMAIN json
         THEN Exc("KeyError", <<"details">>)
         ELSE Exc("Exception", str(json["details"]))
    ELSE NoExc

(***************************************************************************)
(* Getters.  An outcome carries what the call returned or raised, how many *)
(* times it read the document, and the document it leaves behind.          *)
(***************************************************************************)
Return(v, n, json) ==
    [kind |-> "return", val |-> v, msg |-> <<>>, reads |-> n, json |-> json]

Raise(kind, msg, n, json) ==
    [kind |-> kind, val |-> Absent, msg |-> msg, reads |-> n, json |-> json]

NoOut == [kind |-> "none", val |-> Absent, msg |-> <<>>, reads |-> 0, json |-> Unset]

\* Python truthiness of a JSON-derived value
Truthy(v) ==
    CASE v.t = "null" -> FALSE
      [] v.t = "bool" -> v.b
      [] v.t = "num" -> v.n # 0
      [] v.t = "str" -> v.s # ""
      [] v.t = "list" -> v.l # <<>>
      [] OTHER -> TRUE

\* the presence test written as "if not self.scryfallJson.get(key)"
checkForKey_falsy(json, key) ==
    IF key \notin DOMAIN json \/ ~Truthy(json[key])
    THEN Exc("KeyError", <<"This card has no key '", key, "'">>)
    ELSE NoExc

\* _checkForKey
checkForKey(json, key) ==
    IF key \notin DOMAIN json
    THEN Exc("KeyError", <<"This card has no key '", key, "'">>)
    ELSE NoExc

\* a getter returning self.scryfallJson.pop(key)
Getter_pop(json, key) ==
    LET c == checkForKey(json, key) IN
    IF c.kind # "none" THEN Raise(c.kind, c.msg, 1, json)
    ELSE Return(json[key], 2, [k \in DOMAIN json \ {key} |-> json[k]])

\* the body shared by the zero-argument getters:
\* self._checkForKey(key); return self.scryfallJson[key]
Getter(json, key) ==
    LET c == checkForKey(json, key) IN
    IF c.kind # "none" THEN Raise(c.kind, c.msg, 1, json)
    ELSE Return(json[key], 2, json)

Modes == {"usd", "eur", "tix"}

ModeArgs == Modes \cup {"btc"}

\* currency with the lookup ahead of the argument check
currency_late(json, mode) ==
    LET g == Getter(json, mode) IN
    IF g.kind # "return" THEN g
    ELSE IF mode \notin Modes
    THEN Raise("KeyError", <<mode, " is not a key.">>, g.reads, json)
    ELSE g

\* currency
currency(json, mode) ==
    IF mode \notin Modes
    THEN Raise("KeyError", <<mode, " is not a key.">>, 0, json)
    ELSE Getter(json, mode)

\* Python list subscripting: list[num], negative num counting from the end
InRange(l, num) == -Len(l) <= num /\ num < Len(l)

PyIndex(l, num) == IF num >= 0 THEN l[num + 1] ELSE l[Len(l) + num + 1]

\* _checkForTupleKey
checkForTupleKey(json, parent, num, key) ==
    IF parent \notin DOMAIN json
    THEN Exc("KeyError", <<parent>>)
    ELSE IF ~InRange(json[parent].l, num)
    THEN Exc("IndexError", <<"list index out of range">>)
    ELSE IF key \notin DOMAIN PyIndex(json[parent].l, num).m
    THEN Exc("KeyError", <<"This tuple has no key '", key, "'">>)
    ELSE NoExc

\* color_indicator
color_indicator(json, num) ==
    LET c == checkForTupleKey(json, "card_faces", num, "color_indicator") IN
    IF c.kind # "none" THEN Raise(c.kind, c.msg, 1, json)
    ELSE Return(PyIndex(json["card_faces"].l, num).m["color_indicator"], 2, json)

Indexes == -1..MaxFaces

Call(fn, mode, num) == [fn |-> fn, mode |-> mode, num |-> num]

NoCall == [call |-> Call("none", "", 0), out |-> NoOut]

(***************************************************************************)
(* State machine                                                           *)
(***************************************************************************)
InitWith(ps, kws) ==
    /\ pc = "start"
    /\ path \in ps
    /\ kwargs \in kws
    /\ params = <<>>
    /\ encodedParams = <<>>
    /\ url = <<>>
    /\ loopPc = "idle"
    /\ wire = NoWire
    /\ requests = 0
    /\ scryfallJson = Unset
    /\ raised = NoExc
    /\ prev = NoCall
    /\ last = NoCall

Init == InitWith({<<"cards/random", "?">>}, FewKwargs)

InitUrl == InitWith(Paths, AllKwargs)

\* lines 31-37
BuildUrl ==
    /\ pc = "start"
    /\ params' = MakeParams(kwargs)
    /\ encodedParams' = urlencode(params')
    /\ url' = MakeUrl(path, encodedParams')
    /\ pc' = "run"
    /\ UNCHANGED <<path, kwargs, loopPc, wire, requests, scryfallJson,
                   raised, prev, last>>

\* lines 52-53 entering do_everything (lines 47-50) and main (lines 43-44)
ThreadRun ==
    /\ pc = "run"
    /\ loopPc = "idle"
    /\ loopPc' = "main"
    /\ UNCHANGED <<pc, path, kwargs, params, encodedParams, url, wire,
                   requests, scryfallJson, raised, prev, last>>

\* line 40: client.get(url) puts the one request on the wire
GetRequest ==
    /\ loopPc = "main"
    /\ requests' = requests + 1
    /\ wire' = [NoWire EXCEPT !.status = "sent"]
    /\ loopPc' = "awaiting"
    /\ UNCHANGED <<pc, path, kwargs, params, encodedParams, url,
                   scryfallJson, raised, prev, last>>

\* the transport answers with a JSON body
Respond ==
    /\ loopPc = "awaiting"
    /\ \E d \in Documents : wire' = [wire EXCEPT !.status = "body", !.body = d]
    /\ loopPc' = "json"
    /\ UNCHANGED <<pc, path, kwargs, params, encodedParams, url, requests,
                   scryfallJson, raised, prev, last>>

\* the transport fails: the exception leaves getRequest, main and
\* run_until_complete
TransportFail ==
    /\ loopPc = "awaiting"
    /\ \E e \in NetworkFailures :
           wire' = [wire EXCEPT !.status = "failed", !.error = e]
    /\ loopPc' = "error"
    /\ UNCHANGED <<pc, path, kwargs, params, encodedParams, url, requests,
                   scryfallJson, raised, prev, last>>

\* lines 41 and 45: self.scryfallJson = await response.json()
StoreJson ==
    /\ loopPc = "json"
    /\ scryfallJson' = wire.body
    /\ loopPc' = "done"
    /\ UNCHANGED <<pc, path, kwargs, params, encodedParams, url, wire,
                   requests, raised, prev, last>>

\* line 53: t.run() gives control back to __init__, or raises in it
ThreadReturn ==
    /\ pc = "run"
    /\ loopPc # "idle"
    /\ \E r \in ThreadRunResult(loopPc, wire) :
           /\ raised' = r
           /\ pc' = IF r.kind = "none" THEN "validate" ELSE "raised"
    /\ UNCHANGED <<path, kwargs, params, encodedParams, url, loopPc, wire,
                   requests, scryfallJson, prev, last>>

\* lines 55-56, and the return of __init__
ValidateStep ==
    /\ pc = "validate"
    /\ raised' = Validate(scryfallJson)
    /\ pc' = IF raised'.kind = "none" THEN "ready" ELSE "raised"
    /\ UNCHANGED <<path, kwargs, params, encodedParams, url, loopPc, wire,
                   requests, scryfallJson, prev, last>>

\* a getter call on the constructed instance
Invoke(call, out) ==
    /\ pc = "ready"
    /\ prev' = last
    /\ last' = [call |-> call, out |-> out]
    /\ scryfallJson' = out.json
    /\ UNCHANGED <<pc, path, kwargs, params, encodedParams, url, loopPc,
                   wire, requests, raised>>

CallObject == Invoke(Call("object", "", 0), Getter(scryfallJson, "object"))

CallName == Invoke(Call("name", "", 0), Getter(scryfallJson, "name"))

CallPower == Invoke(Call("power", "", 0), Getter(scryfallJson, "power"))

CallCurrency ==
    \E m \in ModeArgs : Invoke(Call("currency", m, 0), currency(scryfallJson, m))

CallColorIndicator ==
    \E i \in Indexes :
        Invoke(Call("color_indicator", "", i), color_indicator(scryfallJson, i))

Next ==
    \/ BuildUrl
    \/ ThreadRun
    \/ GetRequest
    \/ Respond
    \/ TransportFail
    \/ StoreJson
    \/ ThreadReturn
    \/ ValidateStep
    \/ CallObject
    \/ CallName
    \/ CallPower
    \/ CallCurrency
    \/ CallColorIndicator

NextUrl == BuildUrl

Spec == Init /\ [][Next]_vars

SpecUrl == InitUrl /\ [][NextUrl]_vars

TypeOK ==
    /\ pc \in {"start", "run", "validate", "ready", "raised"}
    /\ loopPc \in {"idle", "main", "awaiting", "json", "done", "error"}
    /\ requests \in 0..1

(***************************************************************************)
(* Properties                                                              *)
(***************************************************************************)
IsErrorDocument(json) ==
    "object" \in DOMAIN json /\ json["object"] = JStr("error")

Fetched == wire.status = "body" /\ loopPc = "done"

Constructed == pc = "ready"

ConstructionOver == pc \in {"ready", "raised"}

ZeroArgGetters == {"object", "name", "power"}

\* C2: a zero-argument getter raises the missing-key KeyError naming its key
\* when the key is absent, and otherwise returns the stored value as it is,
\* also when that value is null, false, 0 or empty
GetterPresenceCheck ==
    last.call.fn \in ZeroArgGetters =>
        LET key == last.call.fn IN
        IF key \in DOMAIN scryfallJson
        THEN last.out.kind = "return" /\ last.out.val = scryfallJson[key]
        ELSE /\ last.out.kind = "KeyError"
             /\ last.out.msg = <<"This card has no key '", key, "'">>

GetterPresenceCheckWitness ==
    /\ last.call.fn = "power"
    /\ last.out.kind = "return"
    /\ last.out.val \in {JNull, JFalse, JZero, JStr("")}
    /\ prev.call.fn = "name"
    /\ prev.out.kind = "KeyError"

\* C3: currency(mode) with mode outside {usd, eur, tix} raises the
\* "is not a key" KeyError without reading the document, whether or not the
\* document has that key; with mode inside the set it is a key lookup
CurrencyModeCheck ==
    last.call.fn = "currency" =>
        LET m == last.call.mode IN
        IF m \notin {"usd", "eur", "tix"}
        THEN /\ last.out.kind = "KeyError"
             /\ last.out.msg = <<m, " is not a key.">>
             /\ last.out.reads = 0
        ELSE IF m \in DOMAIN scryfallJson
        THEN last.out.kind = "return" /\ last.out.val = scryfallJson[m]
        ELSE /\ last.out.kind = "KeyError"
             /\ last.out.msg = <<"This card has no key '", m, "'">>

CurrencyModeCheckWitness ==
    /\ last.call = Call("currency", "btc", 0)
    /\ "btc" \notin DOMAIN scryfallJson
    /\ last.out.kind = "KeyError"
    /\ prev.call = Call("currency", "usd", 0)
    /\ prev.out.kind = "return"

FaceHasIndicator(json, num) ==
    /\ "card_faces" \in DOMAIN json
    /\ InRange(json["card_faces"].l, num)
    /\ "color_indicator" \in DOMAIN PyIndex(json["card_faces"].l, num).m

\* C4: color_indicator(index) returns the face's value when the face exists
\* and has the key, and in every other case raises the missing-key KeyError
\* with a message that references card_faces and the index
TupleGetterMissingField ==
    last.call.fn = "color_indicator" =>
        LET num == last.call.num IN
        IF FaceHasIndicator(scryfallJson, num)
        THEN /\ last.out.kind = "return"
             /\ last.out.val =
                    PyIndex(scryfallJson["card_faces"].l, num).m["color_indicator"]
        ELSE /\ last.out.kind = "KeyError"
             /\ "card_faces" \in Range(last.out.msg)
             /\ ToString(num) \in Range(last.out.msg)

Given(name, default) == IF name \in DOMAIN kwargs THEN kwargs[name] ELSE default

Count(text, c) == Cardinality({ i \in 1..Len(text) : text[i] = c })

QuerySeparator ==
    pc = "run" => url = Origin \o path \o <<"?">> \o encodedParams

\* C7: once __init__ is past t.run() the fetch has completed or failed, and
\* a constructed instance, the only one a getter runs on, holds the whole
\* fetched document
ConstructionBlocks ==
    /\ pc \in {"validate", "ready", "raised"} => loopPc \in {"done", "error"}
    /\ Constructed => Fetched /\ scryfallJson # Unset /\ scryfallJson = wire.body
    /\ last # NoCall => Constructed

ConstructionBlocksWitness ==
    /\ Constructed
    /\ last.call.fn = "name"
    /\ last.out.kind = "return"

\* C8: on a constructed instance no getter call, returning or raising,
\* changes the document or issues a request; a call repeated right away
\* gives the same outcome, and so does a call repeated after a failed one
FrozenSnapshot ==
    [][Constructed =>
          /\ pc' = "ready"
          /\ scryfallJson' = scryfallJson
          /\ requests' = requests
          /\ wire' = wire
          /\ url' = url
          /\ (last'.call = last.call => last'.out = last.out)
          /\ (last'.call = prev.call /\ last.out.kind # "return"
                => last'.out = prev.out)]_vars

FrozenSnapshotWitness ==
    /\ Constructed
    /\ prev.call.fn = "name"
    /\ prev.out.kind = "return"
    /\ last.call.fn = "power"
    /\ last.out.kind = "KeyError"

\* C9: when the one GET fails in the transport, __init__ raises that
\* failure to its caller: no second request, no document, no instance
TransportFailureSurfaces ==
    /\ requests <= 1
    /\ wire.status = "failed" =>
          /\ pc \in {"run", "raised"}
          /\ pc = "raised" => raised.kind = wire.error
                              /\ raised.kind \in NetworkFailures
          /\ scryfallJson = Unset
          /\ last = NoCall

TransportFailureSurfacesWitness ==
    /\ pc = "raised"
    /\ wire.status = "failed"
    /\ raised.kind = "ServerTimeoutError"
    /\ requests = 1

\* C10: a fetched document without an object key makes __init__ raise
\* KeyError('object'); so every constructed instance holds a document with
\* an object key other than "error", and object() never raises on it
ObjectKeyRequired ==
    /\ Fetched /\ ConstructionOver /\ "object" \notin DOMAIN wire.body
         => pc = "raised" /\ raised = Exc("KeyError", <<"object">>)
    /\ Constructed => /\ "object" \in DOMAIN scryfallJson
                      /\ scryfallJson["object"] # JStr("error")
    /\ last.call.fn = "object" => last.out.kind = "return"

ObjectKeyRequiredWitness ==
    /\ pc = "raised"
    /\ Fetched
    /\ "object" \notin DOMAIN wire.body
    /\ raised = Exc("KeyError", <<"object">>)

====
